---- MODULE Spec2Model ----
(***************************************************************************)
(* Model of two files of the repository:                                   *)
(*   webportal .../job-detail/components/summary.jsx  (class Summary)      *)
(*   rest-server/src/config/authn.js                  (module load)        *)
(*                                                                         *)
(* JavaScript values are records with disjoint field names, so that any    *)
(* two of them can be compared: Undefined, Str(s), Num(n), Arr(items), and *)
(* objects, which are records of their own properties.  React elements are *)
(* records too (HintItem, Div, Spacer, Link, MessageBar).                  *)
(***************************************************************************)
EXTENDS Integers, Sequences, FiniteSets, TLC

VARIABLES
    jobInfo,             \* props.jobInfo
    jobConfig,           \* props.jobConfig
    reloading,           \* props.reloading
    monacoProps,         \* state.monacoProps
    modalTitle,          \* state.modalTitle
    autoReloadInterval,  \* state.autoReloadInterval
    rendered,            \* whether render() has run since construction
    hintMessage,         \* what renderHintMessage() returned in the last render()
    timerInterval,       \* the interval prop the last render() gave to <Timer>
    timerReloads,        \* how many times the Timer has invoked props.onReload
    buttonReloads,       \* how many times the Refresh button has invoked it
    authnPc,             \* position of the load of config/authn.js
    authnMethodEnv,      \* process.env.AUTHN_METHOD
    oidcFile,            \* what /auth-configuration/oidc.yaml holds
    authnConfig,         \* the module's authnConfig
    authnOutcome         \* what the load of the module ended with

vars == <<jobInfo, jobConfig, reloading, monacoProps, modalTitle, autoReloadInterval,
          rendered, hintMessage, timerInterval, timerReloads, buttonReloads,
          authnPc, authnMethodEnv, oidcFile, authnConfig, authnOutcome>>

uiVars == <<jobInfo, jobConfig, reloading, monacoProps, modalTitle, autoReloadInterval,
            rendered, hintMessage, timerInterval, timerReloads, buttonReloads>>

authnVars == <<authnPc, authnMethodEnv, oidcFile, authnConfig, authnOutcome>>

(***************************************************************************)
(* Bounds of the model.                                                    *)
(***************************************************************************)
MaxCode == 1        \* appExitCode ranges over -1 .. MaxCode
MaxSolutions == 2   \* appExitSpec.solution holds up to MaxSolutions entries
MaxIndex == 1       \* task index and original user exit code range over 0 .. MaxIndex
MaxRetries == 4     \* retryDetails.resource ranges over 2 .. MaxRetries
MaxReloads == 2     \* reload invocations counted per source

(***************************************************************************)
(* JavaScript values.                                                      *)
(***************************************************************************)
Undefined == [undef |-> TRUE]
Null == [null |-> TRUE]
Str(s) == [str |-> s]
Num(n) == [num |-> n]
Arr(items) == [items |-> items]

IsNum(v) == "num" \in DOMAIN v
IsStr(v) == "str" \in DOMAIN v
IsArray(v) == "items" \in DOMAIN v

\* lodash isNil: null or undefined
isNil(v) == v = Undefined \/ v = Null

\* ToBoolean: undefined, null, '' and 0 are falsy; objects and arrays are truthy
Truthy(v) ==
    /\ ~isNil(v)
    /\ IsStr(v) => v.str # ""
    /\ IsNum(v) => v.num # 0

\* property read o.f on a value that is not nil: a missing property is undefined
Prop(o, f) == IF f \in DOMAIN o THEN o[f] ELSE Undefined

\* lodash get(object, path): undefined as soon as a step of the path is missing
RECURSIVE get(_, _)
get(o, path) ==
    IF path = <<>> THEN o
    ELSE IF isNil(o) \/ Head(path) \notin DOMAIN o THEN Undefined
    ELSE get(o[Head(path)], Tail(path))

\* the relational operators on ToNumber(v): undefined is NaN, which compares false
GreaterThan(v, n) == IsNum(v) /\ v.num > n
AtLeast(v, n) == IsNum(v) /\ v.num >= n

(***************************************************************************)
(* React elements.                                                         *)
(***************************************************************************)
HintItem(key, header, children) == [key |-> key, header |-> header, children |-> children]
Div(key, child) == [key |-> key, div |-> child]
Spacer == [className |-> "h1"]
Link(text, onClick) == [link |-> text, onClick |-> onClick]
MessageBar(type, children) == [messageBarType |-> type, children |-> children]
Thrown(e) == [throws |-> e]

IsHintItem(e) == "header" \in DOMAIN e
IsThrown(v) == "throws" \in DOMAIN v
IsMessageBar(v) == "messageBarType" \in DOMAIN v

(***************************************************************************)
(* Summary.getUserFailureHintItems and Summary.renderHintMessage.          *)
(***************************************************************************)
\* util.getHumanizedJobStateString: the humanized state of the job
getHumanizedJobStateString(info) == info.jobStatus.state

\* a slip: code >= 0
IsRuntimeExitCodeOrZero(code) == AtLeast(code, 0)

\* code > 0: the dynamic reason comes from the runtime, otherwise from the launcher
IsRuntimeExitCode(code) == GreaterThan(code, 0)

\* the <div>s collected in `reason`
reasonItems(info) ==
    LET runtimeOutput == get(info, <<"jobStatus", "appExitMessages", "runtime">>)
        spec == get(info, <<"jobStatus", "appExitSpec">>)
        code == info.jobStatus.appExitCode
        launcherOutput == get(info, <<"jobStatus", "appExitMessages", "launcher">>)
        static == IF Truthy(spec) /\ Truthy(Prop(spec, "reason"))
                  THEN <<Div("spec-reason", Prop(spec, "reason"))>>
                  ELSE <<>>
        dynamic == IF IsRuntimeExitCode(code)
                   THEN IF Truthy(runtimeOutput) /\ Truthy(Prop(runtimeOutput, "reason"))
                        THEN <<Div("runtime-reason", Prop(runtimeOutput, "reason"))>>
                        ELSE <<>>
                   ELSE IF Truthy(launcherOutput)
                        THEN <<Div("launcher-reason", launcherOutput)>>
                        ELSE <<>>
    IN  static \o dynamic

\* spec.solution.map(...) is a TypeError when spec.solution is truthy and no array
solutionThrows(info) ==
    LET spec == get(info, <<"jobStatus", "appExitSpec">>)
    IN  Truthy(spec) /\ Truthy(Prop(spec, "solution")) /\ ~IsArray(Prop(spec, "solution"))

\* a slip: the static solutions pushed before the dynamic one
solutionItemsStaticFirst(info) ==
    LET runtimeOutput == get(info, <<"jobStatus", "appExitMessages", "runtime">>)
        spec == get(info, <<"jobStatus", "appExitSpec">>)
    IN  (IF Truthy(spec) /\ Truthy(Prop(spec, "solution"))
         THEN LET items == Prop(spec, "solution").items
              IN  [i \in 1..Len(items) |-> Div("spec-reason-" \o ToString(i - 1), items[i])]
         ELSE <<>>)
        \o (IF Truthy(runtimeOutput) /\ Truthy(Prop(runtimeOutput, "solution"))
            THEN <<Div("runtime-solution", Prop(runtimeOutput, "solution"))>>
            ELSE <<>>)

\* the <div>s collected in `solution`
solutionItems(info) ==
    LET runtimeOutput == get(info, <<"jobStatus", "appExitMessages", "runtime">>)
        spec == get(info, <<"jobStatus", "appExitSpec">>)
        dynamic == IF Truthy(runtimeOutput) /\ Truthy(Prop(runtimeOutput, "solution"))
                   THEN <<Div("runtime-solution", Prop(runtimeOutput, "solution"))>>
                   ELSE <<>>
        static == IF Truthy(spec) /\ Truthy(Prop(spec, "solution"))
                  THEN LET items == Prop(spec, "solution").items
                       IN  [i \in 1..Len(items) |->
                               Div("spec-reason-" \o ToString(i - 1), items[i])]
                  ELSE <<>>
    IN  dynamic \o static

\* a slip: if (idx), if (userCode)
ShowsNumberIfTruthy(v) == Truthy(v)

\* if (!isNil(idx)), if (!isNil(userCode)): is the numeric hint shown
ShowsNumber(v) == ~isNil(v)

\* the hints of the trigger task
triggerItems(info) ==
    LET message == get(info, <<"jobStatus", "appExitTriggerMessage">>)
        role == get(info, <<"jobStatus", "appExitTriggerTaskRoleName">>)
        idx == get(info, <<"jobStatus", "appExitTriggerTaskIndex">>)
    IN  (IF Truthy(message)
         THEN <<HintItem("trigger-message", "Exit Trigger Message:", <<message>>)>>
         ELSE <<>>)
        \o (IF Truthy(role)
            THEN <<HintItem("task-role", "Exit Trigger Task Role:", <<role>>)>>
            ELSE <<>>)
        \o (IF ShowsNumber(idx)
            THEN <<HintItem("container-id", "Exit Trigger Task Index:", <<idx>>)>>
            ELSE <<>>)

\* the hint of the original user exit code
userExitCodeItems(info) ==
    LET runtimeOutput == get(info, <<"jobStatus", "appExitMessages", "runtime">>)
        userCode == Prop(runtimeOutput, "originalUserExitCode")
    IN  IF Truthy(runtimeOutput) /\ ShowsNumber(userCode)
        THEN <<HintItem("user-exit-code", "Original User Exit Code:", <<userCode>>)>>
        ELSE <<>>

getUserFailureHintItems(info) ==
    IF solutionThrows(info) THEN Thrown("TypeError")
    ELSE (IF reasonItems(info) # <<>>
          THEN <<HintItem("reason", "Exit Reason:", reasonItems(info))>>
          ELSE <<>>)
         \o (IF solutionItems(info) # <<>>
             THEN <<HintItem("solution", "Exit Solutions:", solutionItems(info))>>
             ELSE <<>>)
         \o <<Spacer>>
         \o triggerItems(info)
         \o userExitCodeItems(info)

\* the children of the generic hint of a failure that is not the user's
GenericSolution ==
    << Str("Please send the "),
       Link("exit diagnostics", "showExitDiagnostics"),
       Str(" to your administrator for further investigation.") >>

\* the children of the hint that resolves a resource conflict
Resolution ==
    << Str("Please adjust the resource requirement in your "),
       Link("job config", "showJobConfig"),
       Str(", or wait till other jobs release more resources back to the system.") >>

\* a slip: every state that is not Running or Waiting
IsExitStateLoose(state) == state # "Running" /\ state # "Waiting"

\* state === 'Failed' || state === 'Stopped'
IsExitState(state) == state = "Failed" \/ state = "Stopped"

\* a slip: if (!isNil(type))
ShowsTypeIfPresent(type) == ~isNil(type)

\* if (type): is the 'Exit Type' hint shown
ShowsType(type) == Truthy(type)

\* a slip: every job that has a type
IsUserFailureAnyType(type) == Truthy(type)

\* type === 'USER_FAILURE'
IsUserFailure(type) == type = Str("USER_FAILURE")

\* the MessageBarType of a job that failed or stopped
ExitBarType(state) == IF state = "Failed" THEN "error" ELSE "info"

\* the count of resource conflicts from which the job is said to wait for resources
RetryThreshold == 3

\* a slip: resourceRetries > 3
IsResourceConflictStrict(resourceRetries) == GreaterThan(resourceRetries, RetryThreshold)

\* resourceRetries >= 3
IsResourceConflict(resourceRetries) == AtLeast(resourceRetries, RetryThreshold)

renderHintMessage(info) ==
    IF ~Truthy(info) THEN Undefined
    ELSE LET state == getHumanizedJobStateString(info) IN
    IF IsExitState(state)
    THEN LET spec == info.jobStatus.appExitSpec
             type == IF Truthy(spec) THEN Prop(spec, "type") ELSE spec
             code == info.jobStatus.appExitCode
             head == <<HintItem("platform-exit-code", "Exit Code:", <<code>>)>>
                     \o (IF ShowsType(type)
                         THEN <<HintItem("type", "Exit Type:", <<type>>)>>
                         ELSE <<>>)
         IN  IF IsUserFailure(type)
             THEN IF solutionThrows(info)
                  THEN getUserFailureHintItems(info)
                  ELSE MessageBar(ExitBarType(state), head \o getUserFailureHintItems(info))
             ELSE MessageBar(ExitBarType(state),
                             head \o <<HintItem("solution", "Exit Solutions:", GenericSolution)>>)
    ELSE IF state = "Waiting"
    THEN LET resourceRetries == get(info, <<"jobStatus", "retryDetails", "resource">>)
         IN  IF IsResourceConflict(resourceRetries)
             THEN MessageBar("warning",
                    << HintItem("conflict-retry-count", "Conflict Count:", <<resourceRetries>>),
                       HintItem("resolution", "Resolution:", <<Div("", Arr(Resolution))>>) >>)
             ELSE Undefined
    ELSE Undefined

(***************************************************************************)
(* The job records the component is given.  Every optional field is either *)
(* absent (undefined) or a value of its type; a text may be empty, a       *)
(* number may be zero or negative, a list may be empty.                    *)
(***************************************************************************)
OptText(s) == {Undefined, Str(""), Str(s)}
OptNumber(lo, hi) == {Undefined} \cup {Num(n) : n \in lo..hi}

States == {"Running", "Succeeded", "Waiting", "Failed", "Stopped"}
Codes == OptNumber(0 - 1, MaxCode)
SolutionTexts == <<Str("S2"), Str("S3"), Str("S4"), Str("S5")>>
Solutions == {Undefined} \cup {Arr(SubSeq(SolutionTexts, 1, n)) : n \in 0..MaxSolutions}
\* the exit specs of type USER_FAILURE, whose fields getUserFailureHintItems reads
UserFailureSpecs ==
    [type : {Str("USER_FAILURE")},
     reason : OptText("R1"),
     solution : Solutions]
\* no exit spec, or one of no type, of an empty type or of another type
OtherSpecs ==
    {Undefined} \cup
    [type : {Undefined, Str(""), Str("PLATFORM_FAILURE")},
     reason : OptText("R1"),
     solution : Solutions]
Runtimes ==
    {Undefined} \cup
    [reason : OptText("R2"),
     solution : OptText("S1"),
     originalUserExitCode : OptNumber(0, MaxIndex)]
ExitMessages == {Undefined} \cup [runtime : Runtimes, launcher : OptText("L1")]
\* a few exit messages, for the jobs whose exit messages are not read
PopulatedRuntime ==
    [reason |-> Str("R2"), solution |-> Str("S1"), originalUserExitCode |-> Num(0)]
SampleMessages ==
    {Undefined} \cup [runtime : {Undefined, PopulatedRuntime}, launcher : {Undefined, Str("L1")}]
TriggerMessages == {Undefined, Str("M1")}
TriggerRoles == {Undefined, Str("worker")}
TriggerIndexes == OptNumber(0, MaxIndex)
RetryDetails == {Undefined} \cup [resource : OptNumber(RetryThreshold - 1, MaxRetries)]

\* jobs that ended in a user failure: every field of the exit varies
UserFailureJobInfos ==
    [name : {"job"},
     jobStatus :
        [state : {"Failed", "Stopped"},
         appExitCode : Codes,
         appExitSpec : UserFailureSpecs,
         appExitMessages : ExitMessages,
         appExitTriggerMessage : TriggerMessages,
         appExitTriggerTaskRoleName : TriggerRoles,
         appExitTriggerTaskIndex : TriggerIndexes,
         appExitDiagnostics : {Undefined},
         retryDetails : {Undefined}]]

\* jobs that ended otherwise: the exit spec varies, over a few exit messages
OtherFailureJobInfos ==
    [name : {"job"},
     jobStatus :
        [state : {"Failed", "Stopped"},
         appExitCode : Codes,
         appExitSpec : OtherSpecs,
         appExitMessages : SampleMessages,
         appExitTriggerMessage : TriggerMessages,
         appExitTriggerTaskRoleName : TriggerRoles,
         appExitTriggerTaskIndex : TriggerIndexes,
         appExitDiagnostics : {Undefined},
         retryDetails : {Undefined, [resource |-> Num(RetryThreshold)]}]]

\* jobs in another state: the retry details vary, over a few exit records
OtherJobInfos ==
    [name : {"job"},
     jobStatus :
        [state : States \ {"Failed", "Stopped"},
         appExitCode : Codes,
         appExitSpec : {Undefined,
                        [type |-> Str("USER_FAILURE"), reason |-> Str("R1"),
                         solution |-> Arr(SubSeq(SolutionTexts, 1, MaxSolutions))]},
         appExitMessages : SampleMessages,
         appExitTriggerMessage : TriggerMessages,
         appExitTriggerTaskRoleName : TriggerRoles,
         appExitTriggerTaskIndex : TriggerIndexes,
         appExitDiagnostics : {Undefined},
         retryDetails : RetryDetails]]

JobInfos == UserFailureJobInfos \cup OtherFailureJobInfos \cup OtherJobInfos

(***************************************************************************)
(* The component: constructor, render and the handlers.                    *)
(***************************************************************************)
DefaultInterval == 10000
Intervals == {0, 10000, 30000, 60000}

\* a slip: <Timer interval={autoReloadInterval} .../>
TimerIntervalPropRaw(interval) == Num(interval)

\* <Timer interval={autoReloadInterval === 0 ? null : autoReloadInterval} .../>
TimerIntervalProp(interval) == IF interval = 0 THEN Null ELSE Num(interval)

\* the server module plays no part in the page
AuthnIdle ==
    /\ authnPc = "start"
    /\ authnMethodEnv = Undefined
    /\ oidcFile = "missing"
    /\ authnConfig = Undefined
    /\ authnOutcome = "none"

\* the state the constructor leaves
Constructed ==
    /\ monacoProps = Null
    /\ modalTitle = ""
    /\ autoReloadInterval = DefaultInterval
    /\ rendered = FALSE
    /\ hintMessage = Undefined
    /\ timerInterval = Null
    /\ timerReloads = 0
    /\ buttonReloads = 0

Init ==
    /\ jobInfo \in JobInfos
    /\ jobConfig = Undefined
    /\ reloading = FALSE
    /\ Constructed
    /\ AuthnIdle

\* what render() computes from the props and the state it is given
RenderOutput(info, interval) ==
    [hintMessage |-> renderHintMessage(info),
     timerInterval |-> TimerIntervalProp(interval)]

\* render() after a change of props or state; a render that throws shows nothing new
Rerender(info, interval) ==
    /\ rendered' = TRUE
    /\ hintMessage' = RenderOutput(info, interval).hintMessage
    /\ timerInterval' = IF IsThrown(RenderOutput(info, interval).hintMessage)
                        THEN timerInterval
                        ELSE RenderOutput(info, interval).timerInterval

\* the first render() of the constructed component
Render ==
    /\ ~rendered
    /\ Rerender(jobInfo, autoReloadInterval)
    /\ UNCHANGED <<jobInfo, jobConfig, reloading, monacoProps, modalTitle,
                   autoReloadInterval, timerReloads, buttonReloads>>
    /\ UNCHANGED authnVars

Mounted == rendered /\ ~IsThrown(hintMessage)

\* onChangeInterval(e, item), item one of the options of the Dropdown
onChangeInterval(key) ==
    /\ Mounted
    /\ autoReloadInterval' = key
    /\ Rerender(jobInfo, key)
    /\ UNCHANGED <<jobInfo, jobConfig, reloading, monacoProps, modalTitle,
                   timerReloads, buttonReloads>>
    /\ UNCHANGED authnVars

\* showEditor(title, props)
showEditor(title, props) ==
    /\ monacoProps' = props
    /\ modalTitle' = title
    /\ Rerender(jobInfo, autoReloadInterval)
    /\ UNCHANGED <<jobInfo, jobConfig, reloading, autoReloadInterval,
                   timerReloads, buttonReloads>>
    /\ UNCHANGED authnVars

\* onDismiss(), which the open panel calls
onDismiss ==
    /\ Mounted
    /\ ~isNil(monacoProps)
    /\ showEditor("", Null)

\* is the generic hint, with its link to the exit diagnostics, on the page
ShowsGenericHint ==
    /\ IsMessageBar(hintMessage)
    /\ \E i \in DOMAIN hintMessage.children :
          hintMessage.children[i] = HintItem("solution", "Exit Solutions:", GenericSolution)

\* is the resolution hint, with its link to the job config, on the page
ShowsResolutionHint ==
    /\ IsMessageBar(hintMessage)
    /\ hintMessage.messageBarType = "warning"

\* showExitDiagnostics(), from the link of the hint or the enabled link of row 3
showExitDiagnostics ==
    /\ Mounted
    /\ ShowsGenericHint \/ ~isNil(jobInfo.jobStatus.appExitDiagnostics)
    /\ showEditor("Exit Diagnostics",
                  [language |-> "text", value |-> jobInfo.jobStatus.appExitDiagnostics])

\* JSON.stringify(jobConfig, null, 2)
Stringify(config) ==
    IF config = Undefined THEN Undefined
    ELSE Str("{\n  \"jobName\": \"" \o config.jobName.str \o "\"\n}")

\* showJobConfig(), from the link of the hint or the enabled link of row 3
showJobConfig ==
    /\ Mounted
    /\ ShowsResolutionHint \/ ~isNil(jobConfig)
    /\ showEditor("Job Config", [language |-> "json", value |-> Stringify(jobConfig)])

\* the Refresh button: onClick={onReload}, disabled={reloading}
ClickRefresh ==
    /\ Mounted
    /\ ~reloading
    /\ buttonReloads < MaxReloads
    /\ buttonReloads' = buttonReloads + 1
    /\ reloading' = TRUE
    /\ UNCHANGED <<jobInfo, jobConfig, monacoProps, modalTitle, autoReloadInterval,
                   rendered, hintMessage, timerInterval, timerReloads>>
    /\ UNCHANGED authnVars

\* <Timer interval func={onReload}>: a schedule that is not null invokes func
TimerTick ==
    /\ Mounted
    /\ ~isNil(timerInterval)
    /\ timerReloads < MaxReloads
    /\ timerReloads' = timerReloads + 1
    /\ reloading' = TRUE
    /\ UNCHANGED <<jobInfo, jobConfig, monacoProps, modalTitle, autoReloadInterval,
                   rendered, hintMessage, timerInterval, buttonReloads>>
    /\ UNCHANGED authnVars

\* the jobs the page shows while its handlers are exercised
UiJobInfos ==
    [name : {"job"},
     jobStatus :
        [state : {"Running", "Waiting", "Failed"},
         appExitCode : {Undefined, Num(1)},
         appExitSpec : {Undefined,
                        [type |-> Str("USER_FAILURE"), reason |-> Str("R1"),
                         solution |-> Undefined]},
         appExitMessages : {Undefined},
         appExitTriggerMessage : {Undefined},
         appExitTriggerTaskRoleName : {Undefined},
         appExitTriggerTaskIndex : {Undefined},
         appExitDiagnostics : {Undefined, Str("diagnostics")},
         retryDetails : {Undefined, [resource |-> Num(RetryThreshold)]}]]

\* the reload ends: the parent hands the component the job it fetched
ReceiveProps(info) ==
    /\ Mounted
    /\ reloading
    /\ jobInfo' = info
    /\ reloading' = FALSE
    /\ Rerender(info, autoReloadInterval)
    /\ UNCHANGED <<jobConfig, monacoProps, modalTitle, autoReloadInterval,
                   timerReloads, buttonReloads>>
    /\ UNCHANGED authnVars

Next == Render

Spec == Init /\ [][Next]_vars

InitUI ==
    /\ jobInfo \in UiJobInfos
    /\ jobConfig \in {Undefined, [jobName |-> Str("job")]}
    /\ reloading = FALSE
    /\ Constructed
    /\ AuthnIdle

NextUI ==
    \/ Render
    \/ \E key \in Intervals : onChangeInterval(key)
    \/ onDismiss
    \/ showExitDiagnostics
    \/ showJobConfig
    \/ ClickRefresh
    \/ TimerTick
    \/ \E info \in UiJobInfos : ReceiveProps(info)

SpecUI == InitUI /\ [][NextUI]_vars

(***************************************************************************)
(* Jobs whose optional fields are absent, null or of another type than the *)
(* data model gives them.                                                  *)
(***************************************************************************)
MalformedJobInfos ==
    [name : {"job"},
     jobStatus :
        [state : {"Running", "Waiting", "Failed", "Stopped"},
         appExitCode : {Undefined, Null, Num(1)},
         appExitSpec :
            {Undefined, Null, Str("oops")} \cup
            [type : {Undefined, Str("USER_FAILURE"), Num(7)},
             reason : {Undefined, Null, Num(5)},
             solution : {Undefined, Null, Str("retry later"), Num(1),
                         Arr(<<>>), Arr(<<Str("S2")>>)}],
         appExitMessages :
            {Undefined, Null, Str("oops")} \cup
            [runtime : {Undefined, Null, Str("oops"),
                        [reason |-> Null, solution |-> Num(5),
                         originalUserExitCode |-> Null]},
             launcher : {Undefined, Num(5)}],
         appExitTriggerMessage : {Undefined, Num(5)},
         appExitTriggerTaskRoleName : {Undefined},
         appExitTriggerTaskIndex : {Undefined, Null, Str("0")},
         appExitDiagnostics : {Undefined},
         retryDetails : {Undefined, Null, Str("oops"), [resource |-> Null]}]]

InitMalformed ==
    /\ jobInfo \in MalformedJobInfos
    /\ jobConfig = Undefined
    /\ reloading = FALSE
    /\ Constructed
    /\ AuthnIdle

SpecMalformed == InitMalformed /\ [][Next]_vars

(***************************************************************************)
(* The load of rest-server/src/config/authn.js, statement by statement.    *)
(***************************************************************************)
\* the values of AUTHN_METHOD
EnvMethods ==
    {Undefined, Str(""), Str("OIDC"), Str("basic"), Str("oidc"), Str("Basic"),
     Str("ldap"), Str("none")}

\* /auth-configuration/oidc.yaml: no such file, no YAML, or one of two documents
OidcFiles == {"missing", "invalid", "tenantA", "tenantB"}

\* the names the module binds (require, let, const) or Node gives it
ModuleBindings ==
    {"Joi", "yaml", "fs", "authnConfig", "authnSchema", "error", "value",
     "process", "require", "module"}

\* reading a name that nothing binds throws a ReferenceError
Resolves(name) == name \in ModuleBindings

\* yaml.safeLoad(fs.readFileSync('/auth-configuration/oidc.yaml', 'utf8'))
LoadOidcFile(file) ==
    CASE file = "missing" -> Thrown("ENOENT")
      [] file = "invalid" -> Thrown("YAMLException")
      [] OTHER -> [tenant |-> Str(file)]

\* authnSchema: an object of the one key authnMethod, a string that is '' (taken
\* as absent), 'OIDC' or 'basic'; a key the schema does not name is an error
SchemaRejects(config) ==
    \/ DOMAIN config \ {"authnMethod"} # {}
    \/ config.authnMethod \notin {Undefined, Str(""), Str("OIDC"), Str("basic")}

\* let authnConfig = {authnMethod: process.env.AUTHN_METHOD, OIDCConfig: null}
AuthnReadEnv ==
    /\ authnPc = "start"
    /\ authnConfig' = [authnMethod |-> authnMethodEnv, OIDCConfig |-> Null]
    /\ authnPc' = "oidc"
    /\ UNCHANGED <<authnMethodEnv, oidcFile, authnOutcome>>
    /\ UNCHANGED uiVars

\* if (authnConfig.authnMethod === 'OIDC') { authnConfig.OIDCConfig = ... }
AuthnLoadOIDC ==
    /\ authnPc = "oidc"
    /\ authnConfig.authnMethod = Str("OIDC")
    /\ IF IsThrown(LoadOidcFile(oidcFile))
       THEN /\ authnOutcome' = LoadOidcFile(oidcFile).throws
            /\ authnPc' = "thrown"
            /\ UNCHANGED authnConfig
       ELSE /\ authnConfig' = [authnConfig EXCEPT !.OIDCConfig = LoadOidcFile(oidcFile)]
            /\ authnPc' = "schema"
            /\ UNCHANGED authnOutcome
    /\ UNCHANGED <<authnMethodEnv, oidcFile>>
    /\ UNCHANGED uiVars

AuthnSkipOIDC ==
    /\ authnPc = "oidc"
    /\ authnConfig.authnMethod # Str("OIDC")
    /\ authnPc' = "schema"
    /\ UNCHANGED <<authnMethodEnv, oidcFile, authnConfig, authnOutcome>>
    /\ UNCHANGED uiVars

\* const authnSchema = Joi.object().keys({...}).required()
AuthnDefineSchema ==
    /\ authnPc = "schema"
    /\ authnPc' = "validate"
    /\ UNCHANGED <<authnMethodEnv, oidcFile, authnConfig, authnOutcome>>
    /\ UNCHANGED uiVars

\* const {error, value} = Joi.validate(azureData, azureSchema), and what follows it
AuthnValidate ==
    /\ authnPc = "validate"
    /\ IF ~Resolves("azureData") \/ ~Resolves("azureSchema")
       THEN authnOutcome' = "ReferenceError" /\ authnPc' = "thrown"
       ELSE IF SchemaRejects(authnConfig)
       THEN authnOutcome' = "config error" /\ authnPc' = "thrown"
       ELSE authnOutcome' = "exported" /\ authnPc' = "done"
    /\ UNCHANGED <<authnMethodEnv, oidcFile, authnConfig>>
    /\ UNCHANGED uiVars

\* the page, which plays no part in the load of the server module
IdleJobInfo ==
    [name |-> "job",
     jobStatus |-> [state |-> "Running",
                    appExitCode |-> Undefined,
                    appExitSpec |-> Undefined,
                    appExitMessages |-> Undefined,
                    appExitTriggerMessage |-> Undefined,
                    appExitTriggerTaskRoleName |-> Undefined,
                    appExitTriggerTaskIndex |-> Undefined,
                    appExitDiagnostics |-> Undefined,
                    retryDetails |-> Undefined]]

InitAuthn ==
    /\ authnPc = "start"
    /\ authnMethodEnv \in EnvMethods
    /\ oidcFile \in OidcFiles
    /\ authnConfig = Undefined
    /\ authnOutcome = "none"
    /\ jobInfo = IdleJobInfo
    /\ jobConfig = Undefined
    /\ reloading = FALSE
    /\ Constructed

NextAuthn ==
    \/ AuthnReadEnv
    \/ AuthnLoadOIDC
    \/ AuthnSkipOIDC
    \/ AuthnDefineSchema
    \/ AuthnValidate

SpecAuthn == InitAuthn /\ [][NextAuthn]_vars

(***************************************************************************)
(* Properties.                                                             *)
(***************************************************************************)
Status == jobInfo.jobStatus
Field(o, f) == IF o = Undefined THEN Undefined ELSE o[f]
ExitType == Field(Status.appExitSpec, "type")
RuntimeOutput == Field(Status.appExitMessages, "runtime")

\* the places of the hints with header h in the rendered block
HintsOf(h) ==
    {i \in DOMAIN hintMessage.children :
        IsHintItem(hintMessage.children[i]) /\ hintMessage.children[i].header = h}

\* the texts of the <div>s of a hint
Texts(hint) == [i \in DOMAIN hint.children |-> hint.children[i].div]

\* a field counts: strictly when it is not absent, else when it also is not empty
Has(v, strict) == IF strict THEN v # Undefined ELSE v # Undefined /\ v # Str("")

ExitRendered == rendered /\ Status.state \in {"Failed", "Stopped"}
UserFailureRendered == ExitRendered /\ ExitType = Str("USER_FAILURE")

\* C1: a job whose state is not Failed, Stopped or Waiting renders no hint block,
\* whatever its exit and retry fields hold.
C1_NoHintInOtherStates ==
    (rendered /\ Status.state \notin {"Failed", "Stopped", "Waiting"})
        => hintMessage = Undefined

C1_Witness ==
    /\ rendered
    /\ Status.state = "Succeeded"
    /\ ExitType = Str("USER_FAILURE")
    /\ Status.appExitCode = Num(1)
    /\ Field(Status.retryDetails, "resource") = Num(RetryThreshold)
    /\ hintMessage = Undefined

ExitHead(strict) ==
    ExitRendered =>
        /\ IsMessageBar(hintMessage)
        /\ hintMessage.messageBarType = (IF Status.state = "Failed" THEN "error" ELSE "info")
        /\ hintMessage.children[1]
              = HintItem("platform-exit-code", "Exit Code:", <<Status.appExitCode>>)
        /\ HintsOf("Exit Code:") = {1}
        /\ HintsOf("Exit Type:") = (IF Has(ExitType, strict) THEN {2} ELSE {})
        /\ Has(ExitType, strict) => hintMessage.children[2].children = <<ExitType>>

\* C2, as claimed: a Failed or Stopped job renders a block of severity error or info
\* whose first hint is the one 'Exit Code' hint, followed by an 'Exit Type' hint if
\* and only if appExitSpec.type is present.
C2_ExitTypeIffPresent == ExitHead(TRUE)

\* C2, amended: the 'Exit Type' hint follows if and only if appExitSpec.type is
\* present and not the empty string.
C2_ExitTypeIffNonEmpty == ExitHead(FALSE)

C2_Witness ==
    /\ ExitRendered
    /\ Status.state = "Stopped"
    /\ Status.appExitCode = Undefined
    /\ ExitType = Str("PLATFORM_FAILURE")
    /\ HintsOf("Exit Type:") = {2}

UserFailureHeaders ==
    {"Exit Reason:", "Exit Trigger Message:", "Exit Trigger Task Role:",
     "Exit Trigger Task Index:", "Original User Exit Code:"}

GenericHints ==
    {i \in DOMAIN hintMessage.children :
        hintMessage.children[i] = HintItem("solution", "Exit Solutions:", GenericSolution)}

UserFailureElements ==
    {i \in DOMAIN hintMessage.children :
        LET e == hintMessage.children[i]
        IN  \/ e = Spacer
            \/ /\ IsHintItem(e)
               /\ \/ e.header \in UserFailureHeaders
                  \/ e.header = "Exit Solutions:" /\ e.children # GenericSolution}

\* C3: a Failed or Stopped job of type USER_FAILURE renders the user-failure hints
\* and no generic referral; with any other type, or none, it renders exactly one
\* generic referral and no user-failure hint, whatever the other fields hold.
C3_UserFailureOrGeneric ==
    ExitRendered =>
        IF ExitType = Str("USER_FAILURE")
        THEN /\ GenericHints = {}
             /\ Cardinality({i \in DOMAIN hintMessage.children :
                                hintMessage.children[i] = Spacer}) = 1
             /\ HintsOf("Exit Trigger Message:") # {}
                   <=> Has(Status.appExitTriggerMessage, FALSE)
             /\ HintsOf("Exit Trigger Task Role:") # {}
                   <=> Has(Status.appExitTriggerTaskRoleName, FALSE)
        ELSE /\ Cardinality(GenericHints) = 1
             /\ UserFailureElements = {}

C3_Witness ==
    /\ ExitRendered
    /\ ExitType = Str("PLATFORM_FAILURE")
    /\ Status.appExitSpec.reason = Str("R1")
    /\ Field(RuntimeOutput, "reason") = Str("R2")
    /\ Field(Status.appExitMessages, "launcher") = Str("L1")
    /\ Status.appExitTriggerTaskIndex = Num(0)
    /\ Cardinality(GenericHints) = 1

ExpectedReason(strict) ==
    (IF Has(Status.appExitSpec.reason, strict)
     THEN <<Status.appExitSpec.reason>> ELSE <<>>)
    \o (IF Status.appExitCode.num > 0
        THEN IF Has(Field(RuntimeOutput, "reason"), strict)
             THEN <<Field(RuntimeOutput, "reason")>> ELSE <<>>
        ELSE IF Has(Field(Status.appExitMessages, "launcher"), strict)
             THEN <<Field(Status.appExitMessages, "launcher")>> ELSE <<>>)

ExitReason(strict) ==
    (UserFailureRendered /\ Status.appExitCode # Undefined) =>
        IF ExpectedReason(strict) = <<>>
        THEN HintsOf("Exit Reason:") = {}
        ELSE /\ Cardinality(HintsOf("Exit Reason:")) = 1
             /\ \A i \in HintsOf("Exit Reason:") :
                   Texts(hintMessage.children[i]) = ExpectedReason(strict)

\* C4, as claimed: the 'Exit Reason' hint of a USER_FAILURE job holds
\* appExitSpec.reason if present, then runtime.reason (appExitCode > 0) or launcher
\* (appExitCode <= 0) if present, and is rendered if and only if a part is collected.
C4_ReasonOfPresentParts == ExitReason(TRUE)

\* C4, amended: a part is collected if it is present and not the empty string.
C4_ReasonOfNonEmptyParts == ExitReason(FALSE)

C4_Witness ==
    /\ UserFailureRendered
    /\ Status.appExitCode = Num(0)
    /\ Field(RuntimeOutput, "reason") = Str("R2")
    /\ \E i \in HintsOf("Exit Reason:") :
          Texts(hintMessage.children[i]) = <<Str("R1"), Str("L1")>>

TriggerHints ==
    HintsOf("Exit Trigger Message:") \cup HintsOf("Exit Trigger Task Role:")
        \cup HintsOf("Exit Trigger Task Index:")

ExpectedSolutions(strict) ==
    (IF Has(Field(RuntimeOutput, "solution"), strict)
     THEN <<Field(RuntimeOutput, "solution")>> ELSE <<>>)
    \o (IF Status.appExitSpec.solution = Undefined
        THEN <<>> ELSE Status.appExitSpec.solution.items)

ExitSolutions(strict) ==
    UserFailureRendered =>
        IF ExpectedSolutions(strict) = <<>>
        THEN HintsOf("Exit Solutions:") = {}
        ELSE /\ Cardinality(HintsOf("Exit Solutions:")) = 1
             /\ \A i \in HintsOf("Exit Solutions:") :
                   /\ Texts(hintMessage.children[i]) = ExpectedSolutions(strict)
                   /\ \A r \in HintsOf("Exit Reason:") : r < i
                   /\ \A t \in TriggerHints : i < t

\* C5, as claimed: the 'Exit Solutions' hint of a USER_FAILURE job holds
\* runtime.solution if present, whatever the sign of appExitCode, then the entries
\* of appExitSpec.solution in their order; it is rendered if and only if that list
\* is not empty, after the 'Exit Reason' hint and before the trigger hints.
C5_SolutionsOfPresentParts == ExitSolutions(TRUE)

\* C5, amended: runtime.solution is collected if it is present and not the empty
\* string.
C5_SolutionsOfNonEmptyParts == ExitSolutions(FALSE)

C5_Witness ==
    /\ UserFailureRendered
    /\ Status.appExitCode = Num(0 - 1)
    /\ HintsOf("Exit Reason:") # {}
    /\ TriggerHints # {}
    /\ Status.appExitSpec.solution # Undefined
    /\ Len(Status.appExitSpec.solution.items) = MaxSolutions
    /\ \E i \in HintsOf("Exit Solutions:") :
          Texts(hintMessage.children[i])
              = <<Str("S1")>> \o Status.appExitSpec.solution.items

NumberHint(header, v) ==
    IF v = Undefined
    THEN HintsOf(header) = {}
    ELSE /\ Cardinality(HintsOf(header)) = 1
         /\ \A i \in HintsOf(header) : hintMessage.children[i].children = <<v>>

\* C6: in a USER_FAILURE job the 'Exit Trigger Task Index' hint is rendered exactly
\* when appExitTriggerTaskIndex is not absent, and the 'Original User Exit Code'
\* hint exactly when runtime.originalUserExitCode is not absent; 0 is not absent.
C6_NumbersByPresence ==
    UserFailureRendered =>
        /\ NumberHint("Exit Trigger Task Index:", Status.appExitTriggerTaskIndex)
        /\ NumberHint("Original User Exit Code:",
                      Field(RuntimeOutput, "originalUserExitCode"))

C6_Witness ==
    /\ UserFailureRendered
    /\ Status.appExitTriggerTaskIndex = Num(0)
    /\ Field(RuntimeOutput, "originalUserExitCode") = Num(0)
    /\ HintsOf("Exit Trigger Task Index:") # {}
    /\ HintsOf("Original User Exit Code:") # {}

Retries == Field(Status.retryDetails, "resource")

\* C7: a Waiting job renders a block if and only if retryDetails.resource >= 3; the
\* block is a warning of two hints, 'Conflict Count' with the count and the fixed
\* 'Resolution', and holds no exit-code hint.
C7_WaitingConflict ==
    (rendered /\ Status.state = "Waiting") =>
        IF Retries # Undefined /\ Retries.num >= 3
        THEN /\ IsMessageBar(hintMessage)
             /\ hintMessage.messageBarType = "warning"
             /\ Len(hintMessage.children) = 2
             /\ hintMessage.children[1].header = "Conflict Count:"
             /\ hintMessage.children[1].children = <<Retries>>
             /\ hintMessage.children[2]
                   = HintItem("resolution", "Resolution:", <<Div("", Arr(Resolution))>>)
             /\ HintsOf("Exit Code:") = {}
        ELSE hintMessage = Undefined

C7_Witness ==
    /\ rendered
    /\ Status.state = "Waiting"
    /\ Retries = Num(3)
    /\ Status.appExitCode = Num(1)
    /\ IsMessageBar(hintMessage)

\* C8, as claimed: rendering the hints of a job that has a jobStatus never throws,
\* whichever optional fields are absent or malformed.
C8_NeverThrows == rendered => ~IsThrown(hintMessage)

C9_Schedule ==
    /\ ~rendered => autoReloadInterval = 10000
    /\ autoReloadInterval \in {0, 10000, 30000, 60000}
    /\ Mounted => /\ timerInterval = Null <=> autoReloadInterval = 0
                  /\ autoReloadInterval # 0 => timerInterval = Num(autoReloadInterval)

C9_Step ==
    /\ autoReloadInterval = 0 => timerReloads' = timerReloads
    /\ autoReloadInterval' # autoReloadInterval =>
          /\ monacoProps' = monacoProps
          /\ modalTitle' = modalTitle
          /\ hintMessage' = hintMessage

\* C9: the component starts at 10 s; the interval is always 0, 10000, 30000 or
\* 60000; the Timer's schedule is null exactly when the interval is 0; while the
\* interval is 0 no tick of the Timer invokes the reload; and selecting an interval
\* changes neither the modal nor the hints.
C9_AutoRefresh == []C9_Schedule /\ [][C9_Step]_vars

C9_Witness ==
    /\ Mounted
    /\ autoReloadInterval = 0
    /\ timerInterval = Null
    /\ timerReloads = 1
    /\ buttonReloads = 1
    /\ modalTitle = "Job Config"
    /\ IsMessageBar(hintMessage)

\* C10, as claimed: the load of the module ends with the validated config exported
\* when AUTHN_METHOD is 'OIDC' (its YAML file readable), 'basic', empty or unset,
\* and with the Error 'config error' for any other value; the YAML file is read
\* only when AUTHN_METHOD is 'OIDC'.
C10_ExportsOrConfigError ==
    /\ (authnConfig # Undefined /\ authnConfig.OIDCConfig # Null)
          => authnMethodEnv = Str("OIDC")
    /\ (/\ authnPc \in {"done", "thrown"}
        /\ authnMethodEnv = Str("OIDC") => oidcFile \notin {"missing", "invalid"})
          => authnOutcome = (IF authnMethodEnv \in {Undefined, Str(""), Str("OIDC"), Str("basic")}
                             THEN "exported"
                             ELSE "config error")

====
